---- MODULE Spec2Model ----
(***************************************************************************)
(* The authenticated proxy request pipeline of the maps explorer:          *)
(*   app/lib/auth/token.ts     getMapsAccessToken and its one-slot cache   *)
(*   app/lib/validation.ts     normalizePath, isPathSafe, buildQueryString *)
(*   app/api/maps/route.ts     POST, the proxy endpoint                    *)
(*   app/api/maps/token/route.ts  GET, the token endpoint                  *)
(*                                                                         *)
(* Strings the code inspects are sequences of one-character strings (path, *)
(* method) or of lexical tokens (URLs, error messages), so that trim,      *)
(* startsWith, includes, toUpperCase and the URL getters are computed.     *)
(* Time is Date.now() in milliseconds.                                     *)
(***************************************************************************)
EXTENDS Integers, Sequences, FiniteSets, TLC

VARIABLES
    now,            \* Date.now(), in ms
    env,            \* process.env, fixed for the life of the process
    cachedToken,    \* the module-level cachedToken of token.ts
    pc,             \* per request: the await point its handler is suspended at
    payload,        \* per proxy request: the value request.json() produced
    call,           \* per request: the in-flight token exchange of its getMapsAccessToken call
    fwd,            \* per proxy request: the upstream fetch it issued (url, method, headers, start)
    out,            \* per request: what the handler returned (or the exception it ended with)
    tokenFetches,   \* per request: token-exchange fetches issued so far
    upstreamFetches \* per request: upstream fetches issued so far

vars == <<now, env, cachedToken, pc, payload, call, fwd, out, tokenFetches, upstreamFetches>>

----------------------------------------------------------------------------
(* Bounds of the model *)

\* ticks of the clock while token-endpoint requests run, and while a proxy request runs
MaxTicks == 4
MaxProxyTicks == 1

\* the step of the clock while a proxy request runs: the timeout of the upstream
\* call (it is 30 s while token-endpoint requests run)
ProxyTickMs == 20 * 1000

\* concurrent requests to the token endpoint, and the proxy request
TokenCallers == {"t1", "t2"}
ProxyCallers == {"p1"}
\* the static-map request
StaticCallers == {"s1"}
Requests == TokenCallers \cup ProxyCallers \cup StaticCallers

----------------------------------------------------------------------------
(* JavaScript values: undefined, null, a number, a string, an object *)

Val(t, s) == [t |-> t, s |-> s]
Undef == Val("undefined", <<>>)
JNull == Val("null", <<>>)
JNum == Val("number", <<"5">>)
JObj == Val("object", <<>>)
Str(s) == Val("string", s)

\* `a ?? b`
Nullish(v) == v.t \in {"undefined", "null"}
Coalesce(a, b) == IF Nullish(a) THEN b ELSE a

\* `!v` is false: the value is truthy
Truthy(v) ==
    CASE v.t = "string" -> v.s # <<>>
      [] v.t = "number" -> TRUE
      [] v.t = "object" -> TRUE
      [] OTHER -> FALSE

StartsWith(s, prefix) ==
    /\ Len(s) >= Len(prefix)
    /\ SubSeq(s, 1, Len(prefix)) = prefix

----------------------------------------------------------------------------
(* app/lib/validation.ts *)

IsWhitespace(c) == c \in {" ", "\t"}

RECURSIVE TrimStart(_)
TrimStart(s) ==
    IF s # <<>> /\ IsWhitespace(Head(s)) THEN TrimStart(Tail(s)) ELSE s

RECURSIVE TrimEnd(_)
TrimEnd(s) ==
    IF s # <<>> /\ IsWhitespace(s[Len(s)]) THEN TrimEnd(SubSeq(s, 1, Len(s) - 1)) ELSE s

\* String.prototype.trim
Trim(s) == TrimEnd(TrimStart(s))

\* replace(/^\/+/, "")
RECURSIVE StripLeadingSlashes(_)
StripLeadingSlashes(s) ==
    IF s # <<>> /\ Head(s) = "/" THEN StripLeadingSlashes(Tail(s)) ELSE s

\* String.prototype.includes
Includes(s, sub) ==
    \E i \in 1..(Len(s) - Len(sub) + 1) : SubSeq(s, i, i + Len(sub) - 1) = sub

normalizePath(path) == StripLeadingSlashes(Trim(path))

isPathSafeNoTraversalCheck(path) ==
    LET normalized == normalizePath(path) IN
    /\ normalized # <<>>
    /\ ~(StartsWith(normalized, <<"h", "t", "t", "p">>) \/ Includes(normalized, <<":", "/", "/">>))
isPathSafeNoSchemeCheck(path) ==
    LET normalized == normalizePath(path) IN
    /\ normalized # <<>>
    /\ ~Includes(normalized, <<".", ".">>)
isPathSafe(path) ==
    LET normalized == normalizePath(path) IN
    /\ normalized # <<>>
    /\ ~(StartsWith(normalized, <<"h", "t", "t", "p">>) \/ Includes(normalized, <<":", "/", "/">>))
    /\ ~Includes(normalized, <<".", ".">>)

\* the application/x-www-form-urlencoded serializer of URLSearchParams
EncodeChar(c) ==
    CASE c = " " -> <<"+">>
      [] c = "&" -> <<"%", "2", "6">>
      [] c = "=" -> <<"%", "3", "D">>
      [] OTHER -> <<c>>

RECURSIVE Encode(_)
Encode(s) == IF s = <<>> THEN <<>> ELSE EncodeChar(Head(s)) \o Encode(Tail(s))

\* buildQueryString over the entries of params, in order; a null value is skipped
RECURSIVE buildQueryString(_)
buildQueryString(entries) ==
    IF entries = <<>> THEN <<>>
    ELSE LET e == Head(entries)
             rest == buildQueryString(Tail(entries))
         IN IF Nullish(e.value) THEN rest
            ELSE Encode(e.key) \o <<"=">> \o Encode(e.value.s)
                 \o (IF rest = <<>> THEN <<>> ELSE <<"&">> \o rest)

----------------------------------------------------------------------------
(* the URL class: a URL string is its sequence of lexical tokens,            *)
(* <<"https:", "//", host, "/", segment, ..., "?", query, "#", fragment>>    *)

RECURSIVE UpTo(_, _)
UpTo(s, stops) ==
    IF s = <<>> \/ Head(s) \in stops THEN <<>> ELSE <<Head(s)>> \o UpTo(Tail(s), stops)

RECURSIVE After(_, _)
After(s, stop) ==
    IF s = <<>> THEN <<>> ELSE IF Head(s) = stop THEN Tail(s) ELSE After(Tail(s), stop)

UrlFailure == [ok |-> FALSE, protocol |-> "", origin |-> <<>>, pathname |-> <<>>,
               search |-> <<>>, hash |-> <<>>]

\* new URL(s): the getters the code reads; search and hash are empty for an
\* absent and for an empty query or fragment
URLParse(s) ==
    IF \/ Len(s) < 3
       \/ s[1] \notin {"https:", "http:"}
       \/ s[2] # "//"
       \/ s[3] \in {"//", "/", "?", "#"}
       \/ (Len(s) > 3 /\ s[4] \notin {"/", "?", "#"})
    THEN UrlFailure
    ELSE LET rest == SubSeq(s, 4, Len(s))
             path == UpTo(rest, {"?", "#"})
             query == IF Includes(UpTo(rest, {"#"}), <<"?">>)
                      THEN After(UpTo(rest, {"#"}), "?") ELSE <<>>
             fragment == After(rest, "#")
         IN [ok |-> TRUE,
             protocol |-> s[1],
             origin |-> <<s[1], "//", s[3]>>,
             pathname |-> IF path = <<>> THEN <<"/">> ELSE path,
             search |-> IF query = <<>> THEN <<>> ELSE <<"?">> \o query,
             hash |-> IF fragment = <<>> THEN <<>> ELSE <<"#">> \o fragment]

\* replace(/\/$/, "")
StripTrailingSlash(s) ==
    IF s # <<>> /\ s[Len(s)] = "/" THEN SubSeq(s, 1, Len(s) - 1) ELSE s

----------------------------------------------------------------------------
(* process.env *)

Environment(key, cid, base, tenant, client, secret) ==
    [AZURE_MAPS_KEY |-> key, AZURE_MAPS_CLIENT_ID |-> cid, AZURE_MAPS_BASE_URL |-> base,
     AZURE_TENANT_ID |-> tenant, AZURE_CLIENT_ID |-> client, AZURE_CLIENT_SECRET |-> secret]

\* the Entra prerequisites: all set, or one of them unset or empty
EntraSettings ==
    { <<Str(<<"t">>), Str(<<"c">>), Str(<<"s">>)>>,
      <<Undef,        Str(<<"c">>), Str(<<"s">>)>>,
      <<Str(<<"t">>), Undef,        Str(<<"s">>)>>,
      <<Str(<<"t">>), Str(<<"c">>), Str(<<>>)>> }

\* the environments of a deployment that serves only the token endpoint
TokenEnvs ==
    { Environment(Undef, Undef, Undef, e[1], e[2], e[3]) : e \in EntraSettings }

----------------------------------------------------------------------------
(* token.ts: the cache and getMapsAccessToken *)

NoToken == [present |-> FALSE, accessToken |-> "", expiresAt |-> 0]
Cached(tok, exp) == [present |-> TRUE, accessToken |-> tok, expiresAt |-> exp]

\* `cachedToken && cachedToken.expiresAt > Date.now() + 60_000`
CacheValidInverted(c, t) == c.present /\ c.expiresAt < t + 60000
CacheValid(c, t) == c.present /\ c.expiresAt > t + 60000

\* `Date.now() + payload.expires_in * 1000`
ExpiresAtUnscaled(t, expiresIn) == t + expiresIn
ExpiresAt(t, expiresIn) == t + expiresIn * 1000

Return(tok) == [kind |-> "return", token |-> tok, message |-> <<>>]
Throw(msg) == [kind |-> "throw", token |-> "", message |-> msg]
IssueFetch == [kind |-> "fetch", token |-> "", message |-> <<>>]

\* getRequiredEnv in the environment e: `if (!value) throw new Error(`missing_${name}`)`
getRequiredEnv(e, name) ==
    IF Truthy(e[name]) THEN Return("") ELSE Throw(<<"missing_", name>>)

\* the three prerequisites of an exchange are set
EntraConfigured ==
    /\ Truthy(env.AZURE_TENANT_ID)
    /\ Truthy(env.AZURE_CLIENT_ID)
    /\ Truthy(env.AZURE_CLIENT_SECRET)

\* lines 60-67 in the environment e: the exception of a missing prerequisite, or
\* the token-exchange fetch
CheckPrerequisites(e) ==
    IF getRequiredEnv(e, "AZURE_TENANT_ID").kind = "throw"
    THEN getRequiredEnv(e, "AZURE_TENANT_ID")
    ELSE IF ~Truthy(e.AZURE_CLIENT_ID) \/ ~Truthy(e.AZURE_CLIENT_SECRET)
         THEN Throw(<<"missing_", "client_credentials">>)
    ELSE IssueFetch

\* getMapsAccessToken up to its first await: the cached token, an exception,
\* or the token-exchange fetch
GetTokenSync ==
    IF CacheValid(cachedToken, now) THEN Return(cachedToken.accessToken)
    ELSE CheckPrerequisites(env)

\* what the identity provider may answer to one exchange
IdpBody(valid, tok, expiresIn) == [valid |-> valid, access_token |-> tok, expires_in |-> expiresIn]
NoBody == IdpBody(FALSE, "", 0)
IdpResponses ==
    { [arrived |-> TRUE, ok |-> TRUE, text |-> <<>>, body |-> IdpBody(TRUE, t, e)] :
        t \in {"tokA", "tokB"}, e \in {30, 90} }
    \cup { [arrived |-> TRUE, ok |-> FALSE, text |-> x, body |-> NoBody] : x \in { <<"denied">>, <<"missing_", "grant">> } }
    \cup { [arrived |-> TRUE, ok |-> TRUE, text |-> <<>>, body |-> NoBody],    \* 200 with a body that is no JSON
           [arrived |-> FALSE, ok |-> FALSE, text |-> <<>>, body |-> NoBody] } \* transport failure

\* the state of the cache as the call found it (kept to state the claims)
CacheClass(c, t) ==
    CASE ~c.present -> "empty"
      [] c.expiresAt > t + 60000 -> "valid"
      [] c.expiresAt = t + 60000 -> "boundary"
      [] OTHER -> "stale"

NoCall == [active |-> FALSE, found |-> "none", body |-> NoBody]
CallOf(found, body) == [active |-> TRUE, found |-> found, body |-> body]

----------------------------------------------------------------------------
(* app/lib/types.ts RequestShape: the value request.json() produces *)

GET == <<"G", "E", "T">>
POST == <<"P", "O", "S", "T">>
PUT == <<"P", "U", "T">>
PATCH == <<"P", "A", "T", "C", "H">>
DELETE == <<"D", "E", "L", "E", "T", "E">>
HEAD == <<"H", "E", "A", "D">>

NoAuth == [t |-> "undefined", apiKey |-> Undef, clientId |-> Undef]
Auth(apiKey, clientId) == [t |-> "object", apiKey |-> apiKey, clientId |-> clientId]

NoParams == [t |-> "undefined", entries |-> <<>>]
Params(entries) == [t |-> "object", entries |-> entries]
NumberParams == [t |-> "number", entries |-> <<>>]

RequestBody(json, path, params, method, baseUrl, body, auth) ==
    [json |-> json, path |-> path, params |-> params, method |-> method,
     baseUrl |-> baseUrl, body |-> body, auth |-> auth]

\* a well-formed request: GET a, no parameters, default base URL and credentials
DefaultPayload == RequestBody("object", Str(<<"a">>), Params(<<>>), Str(GET), Undef, Undef, NoAuth)

\* bodies that are no JSON, or JSON that is no object
InvalidJson == RequestBody("invalid", Undef, NoParams, Undef, Undef, Undef, NoAuth)
NullPayload == RequestBody("null", Undef, NoParams, Undef, Undef, Undef, NoAuth)
NumberPayload == RequestBody("number", Undef, NoParams, Undef, Undef, Undef, NoAuth)

\* no request received yet
NoPayload == RequestBody("none", Undef, NoParams, Undef, Undef, Undef, NoAuth)

GoodPaths ==
    { Str(<<"a">>), Str(<<" ", "/", "a", " ">>), Str(<<"H", "t", "t", "p">>),
      Str(<<"/", " ", "a">>) }
BadPaths ==
    { Undef, Str(<<>>), Str(<<"/", " ", "/">>),
      Str(<<".", ".", "/", "a">>), Str(<<"a", ".", ".", "b">>),
      Str(<<"h", "t", "t", "p">>), Str(<<"/", " ", "h", "t", "t", "p">>),
      Str(<<"a", ":", "/", "/", "b">>),
      JNum }
PathChoices == GoodPaths \cup BadPaths

BadMethods == { Str(HEAD), JNum }
MethodChoices ==
    { Str(GET), Str(POST), Str(PUT), Str(PATCH), Str(DELETE),
      Undef, Str(<<>>), Str(<<"g", "e", "t">>) }
    \cup BadMethods

GoodBaseUrls ==
    { Undef,
      Str(<<"https:", "//", "atlas.microsoft.com">>),
      Str(<<"https:", "//", "h", "/", "p", "/">>),
      Str(<<"https:", "//", "h", "/", "p", "/", "/">>),
      Str(<<"https:", "//", "h", "?">>) }
BadBaseUrls ==
    { Str(<<"http:", "//", "h">>),
      Str(<<"https:", "//", "h", "?", "x=1">>),
      Str(<<"https:", "//", "h", "/", "p", "#", "f">>),
      Str(<<>>), JNum }
BaseUrlChoices == GoodBaseUrls \cup BadBaseUrls

AuthChoices ==
    { NoAuth,
      Auth(Str(<<"k">>), Undef), Auth(Str(<<>>), Undef),
      Auth(Undef, Str(<<"cid">>)),
      Auth(Str(<<"k">>), Str(<<"cid">>)), Auth(Str(<<>>), Str(<<"cid">>)),
      Auth(Str(<<"k", "\n", "y">>), Undef) }

\* requests that differ from the default request in one field
OneFieldChanged ==
    { [DefaultPayload EXCEPT !.path = x] : x \in PathChoices }
    \cup { [DefaultPayload EXCEPT !.params = x] : x \in
            { Params(<<>>), NumberParams,
              Params(<<[key |-> <<"q">>, value |-> Str(<<"a", " ", "b">>)],
                       [key |-> <<"n">>, value |-> JNull]>>) } }
    \cup { [DefaultPayload EXCEPT !.method = x] : x \in MethodChoices }
    \cup { [DefaultPayload EXCEPT !.baseUrl = x] : x \in BaseUrlChoices }
    \cup { [DefaultPayload EXCEPT !.body = x] : x \in { Undef, JObj } }
    \cup { [DefaultPayload EXCEPT !.auth = x] : x \in AuthChoices }

\* every combination of path, method and base URL of which one at least is bad
SeveralViolations ==
    { pl \in [json : {"object"}, path : PathChoices, params : {DefaultPayload.params},
              method : MethodChoices, baseUrl : BaseUrlChoices, body : {Undef},
              auth : {NoAuth}] :
        pl.path \in BadPaths \/ pl.method \in BadMethods \/ pl.baseUrl \in BadBaseUrls }

\* requests that combine a body, a method and credentials
WithBody ==
    { RequestBody("object", Str(<<"a">>), Params(<<>>), Str(POST), Undef, JObj,
                  Auth(Undef, Str(<<"cid">>))),
      RequestBody("object", Str(<<"a">>), Params(<<>>), Str(DELETE), Undef, JObj,
                  Auth(Str(<<"k">>), Undef)),
      RequestBody("object", Str(<<"h", "t", "t", "p">>), NumberParams, JNum, Undef, JObj,
                  Auth(Str(<<>>), Undef)) }

Payloads ==
    OneFieldChanged \cup SeveralViolations \cup WithBody
    \cup { InvalidJson, NullPayload, NumberPayload }

----------------------------------------------------------------------------
(* app/api/maps/route.ts: the envelopes *)

SAFE_HEADERS ==
    { "content-type", "x-ms-request-id", "x-ms-correlation-request-id",
      "x-ms-azuremaps-tracking-id" }

NoErrorCode == "undefined"

Envelope(httpStatus, metaStatus, headers, durationMs, url, body, raw, errorCode) ==
    [state |-> "returned", httpStatus |-> httpStatus, metaStatus |-> metaStatus,
     headers |-> headers, durationMs |-> durationMs, url |-> url, body |-> body,
     raw |-> raw, errorCode |-> errorCode]

Message(msg) == [kind |-> "message", text |-> msg]

\* the handler ended with an exception nothing caught
Threw(error) == [state |-> "threw", error |-> error]

InvalidJsonEnvelope ==
    Envelope(400, 400, {}, 0, <<>>, Message(<<"Invalid JSON body.">>), <<>>, "invalid_json")
InvalidPathEnvelope ==
    Envelope(400, 400, {}, 0, <<>>, Message(<<"Endpoint path is invalid.">>), <<>>, "invalid_path")
InvalidMethodEnvelope ==
    Envelope(400, 400, {}, 0, <<>>, Message(<<"Unsupported HTTP method.">>), <<>>, "invalid_method")
InvalidBaseUrlEnvelope ==
    Envelope(400, 400, {}, 0, <<>>,
             Message(<<"Base URL must be a valid https URL without query or hash.">>), <<>>,
             "invalid_base_url")
MissingClientIdEnvelopeWithoutUrl(url) ==
    Envelope(500, 500, {}, 0, <<>>, Message(<<"AZURE_MAPS_CLIENT_ID is not set.">>), <<>>,
             "missing_maps_client_id")
MissingClientIdEnvelopeStatus400(url) ==
    Envelope(400, 400, {}, 0, url, Message(<<"AZURE_MAPS_CLIENT_ID is not set.">>), <<>>,
             "missing_maps_client_id")
MissingClientIdEnvelope(url) ==
    Envelope(500, 500, {}, 0, url, Message(<<"AZURE_MAPS_CLIENT_ID is not set.">>), <<>>,
             "missing_maps_client_id")

\* `message.startsWith("missing_") ? "missing_credentials" : "token_error"`
TokenErrorCodeByInclusion(message) ==
    IF Includes(message, <<"missing_">>) THEN "missing_credentials" ELSE "token_error"
TokenErrorCode(message) ==
    IF StartsWith(message, <<"missing_">>) THEN "missing_credentials" ELSE "token_error"
TokenErrorEnvelope(url, message) ==
    Envelope(500, 500, {}, 0, url, Message(message), <<>>, TokenErrorCode(message))

RequestFailedAsTokenError(url, durationMs, message) ==
    Envelope(502, 502, {}, durationMs, url, Message(message), <<>>, "token_error")
RequestFailedStatus500(url, durationMs, message) ==
    Envelope(500, 502, {}, durationMs, url, Message(message), <<>>, "request_failed")
RequestFailedEnvelope(url, durationMs, message) ==
    Envelope(502, 502, {}, durationMs, url, Message(message), <<>>, "request_failed")

\* what the upstream API may answer: status, headers, body text
Upstream(status, headers, text, parses) ==
    [status |-> status, headers |-> headers, text |-> text, parses |-> parses]
NoResponse == Upstream(0, {}, <<>>, FALSE)
UpstreamResponses ==
    { Upstream(200, {<<"content-type", <<"application/json", "; charset=utf-8">>>>,
                     <<"x-ms-request-id", <<"r1">>>>,
                     <<"x-ms-correlation-request-id", <<>>>>,
                     <<"server", <<"nginx">>>>}, <<"{\"ok\":1}">>, TRUE),
      Upstream(200, {<<"content-type", <<"application/json">>>>}, <<"{oops">>, FALSE),
      Upstream(404, {<<"content-type", <<"text/plain">>>>}, <<"not found">>, FALSE),
      Upstream(500, {<<"content-type", <<"application/json">>>>}, <<"{\"error\":1}">>, TRUE),
      Upstream(204, {}, <<>>, FALSE) }

\* response.headers.get(name) ?? ""
HeaderOf(headers, name) ==
    IF \E h \in headers : h[1] = name
    THEN (CHOOSE h \in headers : h[1] = name)[2]
    ELSE <<>>

\* the statuses the Response constructor refuses together with a body
NullBodyStatuses == {101, 103, 204, 205, 304}

\* `body`: JSON.parse(rawText) when the content type says JSON and the text
\* parses, else the text
ParsedBody(resp) ==
    IF Includes(HeaderOf(resp.headers, "content-type"), <<"application/json">>) /\ resp.parses
    THEN [kind |-> "json", text |-> resp.text]
    ELSE [kind |-> "text", text |-> resp.text]

PassThroughFlagsErrors(url, durationMs, resp) ==
    Envelope(resp.status, resp.status,
             { h \in resp.headers : h[1] \in SAFE_HEADERS /\ h[2] # <<>> },
             durationMs, url, ParsedBody(resp), resp.text,
             IF resp.status >= 400 THEN "upstream_error" ELSE NoErrorCode)
PassThroughAllHeaders(url, durationMs, resp) ==
    Envelope(resp.status, resp.status, resp.headers,
             durationMs, url, ParsedBody(resp), resp.text, NoErrorCode)
PassThroughEnvelope(url, durationMs, resp) ==
    Envelope(resp.status, resp.status,
             { h \in resp.headers : h[1] \in SAFE_HEADERS /\ h[2] # <<>> },
             durationMs, url, ParsedBody(resp), resp.text, NoErrorCode)

----------------------------------------------------------------------------
(* app/api/maps/route.ts: POST from the parsed body up to the credential step *)

UpperCaseOf(c) ==
    CASE c = "g" -> "G" [] c = "e" -> "E" [] c = "t" -> "T" [] c = "p" -> "P"
      [] c = "o" -> "O" [] c = "s" -> "S" [] c = "h" -> "H" [] c = "a" -> "A"
      [] c = "d" -> "D" [] OTHER -> c

\* String.prototype.toUpperCase
ToUpperCase(s) == [i \in 1..Len(s) |-> UpperCaseOf(s[i])]

allowedMethodsWithHead == {GET, POST, PUT, PATCH, DELETE, HEAD}
allowedMethods == {GET, POST, PUT, PATCH, DELETE}

\* `a || b`
Or(a, b) == IF Truthy(a) THEN a ELSE b

\* String(v) of a value handed to new URL
StringOf(v) == IF v.t = "string" THEN v.s ELSE <<v.t>>

DefaultBaseUrl == Str(<<"https:", "//", "atlas.microsoft.com">>)

\* `payload.baseUrl ?? process.env.AZURE_MAPS_BASE_URL ?? "https://atlas.microsoft.com"`
EffectiveBaseUrl(pl) == Coalesce(pl.baseUrl, Coalesce(env.AZURE_MAPS_BASE_URL, DefaultBaseUrl))

\* the try block of lines 76-84 does not throw
BaseUrlAcceptedIgnoringQuery(parsed) ==
    /\ parsed.ok
    /\ parsed.protocol = "https:"
    /\ parsed.hash = <<>>
BaseUrlAccepted(parsed) ==
    /\ parsed.ok
    /\ parsed.protocol = "https:"
    /\ parsed.search = <<>> /\ parsed.hash = <<>>

NormalizedBase(parsed) == StripTrailingSlash(parsed.origin \o parsed.pathname)

Rejected(envelope) == [kind |-> "reject", envelope |-> envelope]
Uncaught == [kind |-> "throw", envelope |-> Threw("TypeError")]
Accepted(url, method) == [kind |-> "ok", url |-> url, method |-> method]

\* lines 13-103: the envelope of a rejection, an uncaught TypeError, or the URL and method
ValidateMethodFirst(pl) ==
    IF pl.json = "invalid" THEN Rejected(InvalidJsonEnvelope)
    ELSE IF pl.json = "null" THEN Uncaught
    ELSE IF Or(pl.path, Str(<<>>)).t # "string" THEN Uncaught
    ELSE LET path == normalizePath(Or(pl.path, Str(<<>>)).s) IN
    IF Or(pl.method, Str(GET)).t # "string" THEN Uncaught
    ELSE LET method == ToUpperCase(Or(pl.method, Str(GET)).s) IN
    IF method \notin allowedMethods THEN Rejected(InvalidMethodEnvelope)
    ELSE IF ~isPathSafe(path) THEN Rejected(InvalidPathEnvelope)
    ELSE LET query == buildQueryString(pl.params.entries)
             parsed == URLParse(StringOf(EffectiveBaseUrl(pl))) IN
    IF ~BaseUrlAccepted(parsed) THEN Rejected(InvalidBaseUrlEnvelope)
    ELSE Accepted(NormalizedBase(parsed) \o <<"/">> \o path
                    \o (IF query # <<>> THEN <<"?">> \o query ELSE <<>>),
                  method)
Validate(pl) ==
    IF pl.json = "invalid" THEN Rejected(InvalidJsonEnvelope)
    ELSE IF pl.json = "null" THEN Uncaught
    ELSE IF Or(pl.path, Str(<<>>)).t # "string" THEN Uncaught
    ELSE LET path == normalizePath(Or(pl.path, Str(<<>>)).s) IN
    IF ~isPathSafe(path) THEN Rejected(InvalidPathEnvelope)
    ELSE LET query == buildQueryString(pl.params.entries) IN
    IF Or(pl.method, Str(GET)).t # "string" THEN Uncaught
    ELSE LET method == ToUpperCase(Or(pl.method, Str(GET)).s) IN
    IF method \notin allowedMethods THEN Rejected(InvalidMethodEnvelope)
    ELSE LET parsed == URLParse(StringOf(EffectiveBaseUrl(pl))) IN
    IF ~BaseUrlAccepted(parsed) THEN Rejected(InvalidBaseUrlEnvelope)
    ELSE Accepted(NormalizedBase(parsed) \o <<"/">> \o path
                    \o (IF query # <<>> THEN <<"?">> \o query ELSE <<>>),
                  method)

\* `payload.auth?.apiKey ?? process.env.AZURE_MAPS_KEY`
mapsKey(pl) == Coalesce(pl.auth.apiKey, env.AZURE_MAPS_KEY)
\* `payload.auth?.clientId ?? process.env.AZURE_MAPS_CLIENT_ID`
mapsClientId(pl) == Coalesce(pl.auth.clientId, env.AZURE_MAPS_CLIENT_ID)

KeyHeaders(key) == { <<"subscription-key", StringOf(key)>> }
BearerHeadersWithoutClientId(token, clientId) ==
    { <<"Authorization", <<"Bearer ", token>>>> }
BearerHeaders(token, clientId) ==
    { <<"Authorization", <<"Bearer ", token>>>>, <<"x-ms-client-id", StringOf(clientId)>> }

NoFwd == [issued |-> FALSE, url |-> <<>>, method |-> <<>>, headers |-> {}, hasBody |-> FALSE,
          start |-> 0, armed |-> FALSE, durationMs |-> 0, resp |-> NoResponse,
          received |-> FALSE]

\* the Headers class of fetch: a value is stripped of leading and trailing
\* whitespace, and is refused when a line break or a NUL is left in it
IsHttpWhitespace(c) == c \in {" ", "\t", "\n", "\r"}

RECURSIVE StripHttpWhitespaceStart(_)
StripHttpWhitespaceStart(s) ==
    IF s # <<>> /\ IsHttpWhitespace(Head(s)) THEN StripHttpWhitespaceStart(Tail(s)) ELSE s

RECURSIVE StripHttpWhitespaceEnd(_)
StripHttpWhitespaceEnd(s) ==
    IF s # <<>> /\ IsHttpWhitespace(s[Len(s)])
    THEN StripHttpWhitespaceEnd(SubSeq(s, 1, Len(s) - 1)) ELSE s

HeaderValueNormalize(value) == StripHttpWhitespaceEnd(StripHttpWhitespaceStart(value))

IsHeaderValue(value) == \A i \in 1..Len(value) : value[i] \notin {"\n", "\r", "NUL"}

\* the headers fetch refuses
RefusedHeaders(headers) == { h \in headers : ~IsHeaderValue(HeaderValueNormalize(h[2])) }

\* the message of the TypeError fetch throws for a refused header
InvalidHeaderMessage(h) ==
    <<"Headers.append: \"">> \o HeaderValueNormalize(h[2]) \o <<"\" is an invalid header value.">>

\* lines 156-172: the timer is armed and the upstream fetch issued; fetch refuses
\* a header value with a line break, and a GET with a body, before anything is sent
Forward(p, pl, authHeaders) ==
    LET v == Validate(pl)
        hasBody == Truthy(pl.body)
    IN IF RefusedHeaders(authHeaders) # {}
       THEN /\ pc' = [pc EXCEPT ![p] = "done"]
            /\ out' = [out EXCEPT ![p] =
                         RequestFailedEnvelope(v.url, 0,
                             InvalidHeaderMessage(CHOOSE h \in RefusedHeaders(authHeaders) : TRUE))]
            /\ UNCHANGED <<fwd, upstreamFetches>>
       ELSE IF hasBody /\ v.method \in {GET, HEAD}
       THEN /\ pc' = [pc EXCEPT ![p] = "done"]
            /\ out' = [out EXCEPT ![p] =
                         RequestFailedEnvelope(v.url, 0, <<"Request with GET/HEAD method cannot have body.">>)]
            /\ UNCHANGED <<fwd, upstreamFetches>>
       ELSE /\ pc' = [pc EXCEPT ![p] = "upstreamFetch"]
            /\ fwd' = [fwd EXCEPT ![p] =
                         [issued |-> TRUE, url |-> v.url, method |-> v.method,
                          headers |-> authHeaders
                                      \cup (IF hasBody THEN {<<"content-type", <<"application/json">>>>} ELSE {}),
                          hasBody |-> hasBody, start |-> now, armed |-> TRUE,
                          durationMs |-> 0, resp |-> NoResponse, received |-> FALSE]]
            /\ upstreamFetches' = [upstreamFetches EXCEPT ![p] = @ + 1]
            /\ UNCHANGED out

\* lines 130-153: POST after `await getMapsAccessToken()` settled with r
ProxyAfterToken(p, pl, r) ==
    IF r.kind = "return"
    THEN Forward(p, pl, BearerHeaders(r.token, mapsClientId(pl)))
    ELSE /\ pc' = [pc EXCEPT ![p] = "done"]
         /\ out' = [out EXCEPT ![p] = TokenErrorEnvelope(Validate(pl).url, r.message)]
         /\ UNCHANGED <<fwd, upstreamFetches>>

----------------------------------------------------------------------------
(* app/api/maps/static/route.ts *)

\* a JavaScript number: a finite value counted in halves, an infinity, or NaN
Num(kind, halves) == [t |-> "number", kind |-> kind, halves |-> halves]
Finite(halves) == Num("finite", halves)
Whole(n) == Finite(2 * n)
Infinity == Num("inf", 0)
NaN == Num("nan", 0)

\* a <= b for numbers that are not NaN
NumLe(a, b) ==
    \/ a.kind = "-inf"
    \/ b.kind = "inf"
    \/ a.kind = "finite" /\ b.kind = "finite" /\ a.halves <= b.halves

MathMax(a, b) == IF a.kind = "nan" \/ b.kind = "nan" THEN NaN ELSE IF NumLe(a, b) THEN b ELSE a
MathMin(a, b) == IF a.kind = "nan" \/ b.kind = "nan" THEN NaN ELSE IF NumLe(a, b) THEN a ELSE b

\* Math.round: to the nearest integer, a half towards +Infinity
MathRound(x) == IF x.kind = "finite" THEN Whole((x.halves + 1) \div 2) ELSE x

\* lines 7-8
clampUpperOnly(value, min, max) == MathMin(value, max)
clamp(value, min, max) == MathMin(MathMax(value, min), max)

\* the numeric literals of the model, with their values in halves
Literals ==
    { <<"0", 0>>, <<"0.5", 1>>, <<"-3", -6>>, <<"2.5", 5>>, <<"12", 24>>, <<"47.5", 95>>,
      <<"300", 600>>, <<"1280.5", 2561>>, <<"99999", 199998>> }

\* Number.parseFloat: leading whitespace is skipped, the longest numeric prefix is read
parseFloat(s) ==
    LET rest == TrimStart(s) IN
    IF rest = <<>> THEN NaN
    ELSE IF rest[1] = "Infinity" THEN Infinity
    ELSE IF rest[1] = "-Infinity" THEN Num("-inf", 0)
    ELSE IF \E l \in Literals : l[1] = rest[1]
    THEN Finite((CHOOSE l \in Literals : l[1] = rest[1])[2])
    ELSE NaN

\* lines 10-14
toNumber(value) ==
    IF ~Truthy(value) THEN JNull
    ELSE LET parsed == parseFloat(value.s) IN
         IF parsed.kind = "finite" THEN parsed ELSE JNull

\* lines 163-167: typeof payload?.x === "number" ? payload.x : fallback
NumberOr(value, fallback) == IF value.t = "number" THEN value ELSE fallback

\* a request to the static-map endpoint: the query of a GET, or the value
\* request.json() produced for a POST
MapRequest(verb, json, lat, lon, zoom, width, height, baseUrl, auth) ==
    [verb |-> verb, json |-> json, lat |-> lat, lon |-> lon, zoom |-> zoom, width |-> width,
     height |-> height, baseUrl |-> baseUrl, auth |-> auth]

\* values of a query parameter: absent, empty, numbers, text
QueryValues ==
    { JNull, Str(<<>>), Str(<<"0">>), Str(<<"2.5">>), Str(<<"-3">>), Str(<<"99999">>),
      Str(<<"1280.5">>), Str(<<" ", "300">>), Str(<<"12", "px">>), Str(<<"abc">>),
      Str(<<"Infinity">>) }

MapQueries ==
    { MapRequest("GET", "none", Str(<<"47.5">>), Str(<<"-3">>), z, w, w, Undef, NoAuth) :
        z \in QueryValues, w \in QueryValues }
    \cup { MapRequest("GET", "none", Str(<<"47.5">>), Str(<<"-3">>), JNull, JNull, h, Undef, NoAuth) :
        h \in QueryValues }
    \cup { MapRequest("GET", "none", lat, lon, JNull, JNull, JNull, Undef, NoAuth) :
        lat \in { JNull, Str(<<>>), Str(<<"abc">>), Str(<<"47.5">>), Str(<<"-3">>) },
        lon \in { JNull, Str(<<"abc">>), Str(<<"-3">>) } }

\* values of a field of the JSON body: absent, null, text, numbers
BodyValues ==
    { Undef, JNull, Str(<<"12">>), Whole(0), Finite(5), Whole(-3), Whole(300), Finite(2561),
      Whole(99999), Infinity }

MapBodies ==
    { MapRequest("POST", "object", Finite(95), Whole(-3), z, w, w, Undef, NoAuth) :
        z \in BodyValues, w \in BodyValues }
    \cup { MapRequest("POST", "object", Finite(95), Whole(-3), Undef, Undef, h, Undef, NoAuth) :
        h \in BodyValues }
    \cup { MapRequest("POST", "object", lat, lon, Undef, Undef, Undef, Undef, NoAuth) :
        lat \in {Undef, Str(<<"47.5">>), Whole(0)}, lon \in {Undef, JNull, Whole(0)} }
    \cup { MapRequest("POST", "object", Whole(0), Whole(0), Undef, Undef, Undef, b, a) :
        b \in BaseUrlChoices, a \in AuthChoices }
    \cup { MapRequest("POST", j, Undef, Undef, Undef, Undef, Undef, Undef, NoAuth) :
        j \in {"invalid", "null", "number"} }

\* lines 140-144 and 163-176: the input of buildMapResponse
MapInput(rq) ==
    IF rq.verb = "GET"
    THEN [lat |-> toNumber(rq.lat), lon |-> toNumber(rq.lon),
          zoomRaw |-> Coalesce(toNumber(rq.zoom), Whole(14)),
          widthRaw |-> Coalesce(toNumber(rq.width), Whole(640)),
          heightRaw |-> Coalesce(toNumber(rq.height), Whole(320)),
          baseUrl |-> Undef, auth |-> NoAuth]
    ELSE IF rq.json # "object"
    THEN [lat |-> JNull, lon |-> JNull, zoomRaw |-> Whole(14), widthRaw |-> Whole(640),
          heightRaw |-> Whole(320), baseUrl |-> Undef, auth |-> NoAuth]
    ELSE [lat |-> NumberOr(rq.lat, JNull), lon |-> NumberOr(rq.lon, JNull),
          zoomRaw |-> NumberOr(rq.zoom, Whole(14)),
          widthRaw |-> NumberOr(rq.width, Whole(640)),
          heightRaw |-> NumberOr(rq.height, Whole(320)),
          baseUrl |-> rq.baseUrl, auth |-> rq.auth]

\* lines 16-26
getSafeBaseUrl(input) ==
    LET parsed == URLParse(StringOf(EffectiveBaseUrl(input))) IN
    IF BaseUrlAccepted(parsed) THEN Str(NormalizedBase(parsed)) ELSE JNull

\* lines 71-79: the URL of the map image; String(n) of the three clamped
\* numbers is kept as the number it denotes
MapUrl(input) ==
    [base |-> getSafeBaseUrl(input).s \o <<"/map/static/png">>,
     center |-> <<input.lon, input.lat>>,
     zoom |-> clamp(MathRound(input.zoomRaw), Whole(1), Whole(20)),
     width |-> clamp(MathRound(input.widthRaw), Whole(240), Whole(1280)),
     height |-> clamp(MathRound(input.heightRaw), Whole(160), Whole(960))]

\* the responses of the endpoint: a JSON object with a status, or the image
MapJson(status, message, details) ==
    [state |-> "returned", kind |-> "json", httpStatus |-> status, message |-> message,
     details |-> details]
MapImage(contentType) ==
    [state |-> "returned", kind |-> "image", httpStatus |-> 200, contentType |-> contentType]

\* lines 110-116: fetch refuses a header value with a line break by throwing,
\* and nothing catches it; otherwise the request is issued, without a timer
MapFetch(p, input, authHeaders) ==
    IF RefusedHeaders(authHeaders) # {}
    THEN /\ pc' = [pc EXCEPT ![p] = "done"]
         /\ out' = [out EXCEPT ![p] = Threw("TypeError")]
         /\ UNCHANGED <<fwd, upstreamFetches>>
    ELSE /\ pc' = [pc EXCEPT ![p] = "mapFetch"]
         /\ fwd' = [fwd EXCEPT ![p] =
                      [issued |-> TRUE, url |-> MapUrl(input), method |-> GET,
                       headers |-> authHeaders, hasBody |-> FALSE, start |-> now,
                       armed |-> FALSE, durationMs |-> 0, resp |-> NoResponse,
                       received |-> FALSE]]
         /\ upstreamFetches' = [upstreamFetches EXCEPT ![p] = @ + 1]
         /\ UNCHANGED out

\* lines 95-108: buildMapResponse after `await getMapsAccessToken()` settled with r
MapAfterToken(p, input, r) ==
    IF r.kind = "return"
    THEN MapFetch(p, input, BearerHeaders(r.token, mapsClientId(input)))
    ELSE /\ pc' = [pc EXCEPT ![p] = "done"]
         /\ out' = [out EXCEPT ![p] = MapJson(500, r.message, <<>>)]
         /\ UNCHANGED <<fwd, upstreamFetches>>

----------------------------------------------------------------------------
(* app/api/maps/token/route.ts *)

NoOut == [state |-> "none"]
TokenResponse(status, tok, msg) ==
    [state |-> "returned", httpStatus |-> status, token |-> tok, message |-> msg]

\* GET after `await getMapsAccessToken()` settled with r
TokenRouteFinish(p, r) ==
    /\ pc' = [pc EXCEPT ![p] = "done"]
    /\ out' = [out EXCEPT ![p] =
                 IF r.kind = "return" THEN TokenResponse(200, r.token, <<>>)
                 ELSE TokenResponse(500, "", r.message)]
    /\ UNCHANGED <<fwd, upstreamFetches>>

\* the caller's continuation after its getMapsAccessToken call settled with r
Finish(p, r) ==
    IF p \in TokenCallers THEN TokenRouteFinish(p, r)
    ELSE IF p \in StaticCallers THEN MapAfterToken(p, MapInput(payload[p]), r)
    ELSE ProxyAfterToken(p, payload[p], r)

\* the call suspends at the token-exchange fetch
Suspend(p) ==
    /\ pc' = [pc EXCEPT ![p] = "tokenFetch"]
    /\ call' = [call EXCEPT ![p] = CallOf(CacheClass(cachedToken, now), NoBody)]
    /\ tokenFetches' = [tokenFetches EXCEPT ![p] = @ + 1]
    /\ UNCHANGED <<out, fwd, upstreamFetches>>

\* GET /api/maps/token
TokenRouteGET(p) ==
    /\ p \in TokenCallers
    /\ pc[p] = "idle"
    /\ IF GetTokenSync.kind = "fetch"
       THEN Suspend(p)
       ELSE /\ Finish(p, GetTokenSync)
            /\ call' = [call EXCEPT ![p] = CallOf(CacheClass(cachedToken, now), NoBody)]
            /\ UNCHANGED tokenFetches
    /\ UNCHANGED <<now, env, cachedToken, payload>>

\* the token-exchange fetch settles: rejected, a non-success status, or a success
TokenFetchSettlesClearsCache(p) ==
    /\ pc[p] = "tokenFetch"
    /\ \E resp \in IdpResponses :
         IF ~resp.arrived
         THEN Finish(p, Throw(<<"fetch failed">>)) /\ UNCHANGED call /\ cachedToken' = NoToken
         ELSE IF ~resp.ok
         THEN /\ Finish(p, Throw(<<"token_error", ":", "401", ":">> \o resp.text))
              /\ UNCHANGED call /\ cachedToken' = NoToken
         ELSE /\ pc' = [pc EXCEPT ![p] = "tokenJson"]
              /\ call' = [call EXCEPT ![p].body = resp.body]
              /\ UNCHANGED <<out, fwd, upstreamFetches, cachedToken>>
    /\ UNCHANGED <<now, env, payload, tokenFetches>>
TokenFetchSettles(p) ==
    /\ pc[p] = "tokenFetch"
    /\ \E resp \in IdpResponses :
         IF ~resp.arrived
         THEN Finish(p, Throw(<<"fetch failed">>)) /\ UNCHANGED call
         ELSE IF ~resp.ok
         THEN Finish(p, Throw(<<"token_error", ":", "401", ":">> \o resp.text)) /\ UNCHANGED call
         ELSE /\ pc' = [pc EXCEPT ![p] = "tokenJson"]
              /\ call' = [call EXCEPT ![p].body = resp.body]
              /\ UNCHANGED <<out, fwd, upstreamFetches>>
    /\ UNCHANGED <<now, env, cachedToken, payload, tokenFetches>>

\* `await response.json()` settles: the cache is written and the token returned,
\* or the body was no JSON
TokenJsonSettlesFirstWriteWins(p) ==
    /\ pc[p] = "tokenJson"
    /\ IF call[p].body.valid
       THEN /\ cachedToken' = IF CacheValid(cachedToken, now) THEN cachedToken
                               ELSE Cached(call[p].body.access_token,
                                           ExpiresAt(now, call[p].body.expires_in))
            /\ Finish(p, Return(call[p].body.access_token))
       ELSE /\ UNCHANGED cachedToken
            /\ Finish(p, Throw(<<"Unexpected token">>))
    /\ UNCHANGED <<now, env, payload, call, tokenFetches>>
TokenJsonSettles(p) ==
    /\ pc[p] = "tokenJson"
    /\ IF call[p].body.valid
       THEN /\ cachedToken' = Cached(call[p].body.access_token,
                                     ExpiresAt(now, call[p].body.expires_in))
            /\ Finish(p, Return(call[p].body.access_token))
       ELSE /\ UNCHANGED cachedToken
            /\ Finish(p, Throw(<<"Unexpected token">>))
    /\ UNCHANGED <<now, env, payload, call, tokenFetches>>

\* POST /api/maps: `await request.json()` settled with pl (or rejected); the
\* handler runs to its first await, or to its end
ProxyPOST(p, pl) ==
    /\ p \in ProxyCallers
    /\ pc[p] = "idle" \/ (pc[p] = "resubmitted" /\ pl = payload[p])
    /\ payload' = [payload EXCEPT ![p] = pl]
    /\ LET v == Validate(pl) IN
       IF v.kind # "ok"
       THEN /\ pc' = [pc EXCEPT ![p] = "done"]
            /\ out' = [out EXCEPT ![p] = v.envelope]
            /\ UNCHANGED <<call, fwd, tokenFetches, upstreamFetches>>
       ELSE IF Truthy(mapsKey(pl))
       THEN /\ Forward(p, pl, KeyHeaders(mapsKey(pl)))
            /\ UNCHANGED <<call, tokenFetches>>
       ELSE IF ~Truthy(mapsClientId(pl))
       THEN /\ pc' = [pc EXCEPT ![p] = "done"]
            /\ out' = [out EXCEPT ![p] = MissingClientIdEnvelope(v.url)]
            /\ UNCHANGED <<call, fwd, tokenFetches, upstreamFetches>>
       ELSE IF GetTokenSync.kind = "fetch"
       THEN Suspend(p)
       ELSE /\ ProxyAfterToken(p, pl, GetTokenSync)
            /\ call' = [call EXCEPT ![p] = CallOf(CacheClass(cachedToken, now), NoBody)]
            /\ UNCHANGED tokenFetches
    /\ UNCHANGED <<now, env, cachedToken>>

\* lines 41-108: buildMapResponse runs to its first await, or to its end
buildMapResponse(p, input) ==
    IF input.lat.t = "null" \/ input.lon.t = "null"
    THEN /\ pc' = [pc EXCEPT ![p] = "done"]
         /\ out' = [out EXCEPT ![p] =
                      MapJson(400, <<"lat and lon query params are required.">>, <<>>)]
         /\ UNCHANGED <<call, fwd, tokenFetches, upstreamFetches>>
    ELSE IF ~Truthy(getSafeBaseUrl(input))
    THEN /\ pc' = [pc EXCEPT ![p] = "done"]
         /\ out' = [out EXCEPT ![p] =
                      MapJson(500, <<"AZURE_MAPS_BASE_URL must be a valid https URL.">>, <<>>)]
         /\ UNCHANGED <<call, fwd, tokenFetches, upstreamFetches>>
    ELSE IF Truthy(mapsKey(input))
    THEN /\ MapFetch(p, input, KeyHeaders(mapsKey(input)))
         /\ UNCHANGED <<call, tokenFetches>>
    ELSE IF ~Truthy(mapsClientId(input))
    THEN /\ pc' = [pc EXCEPT ![p] = "done"]
         /\ out' = [out EXCEPT ![p] = MapJson(500, <<"AZURE_MAPS_CLIENT_ID is not set.">>, <<>>)]
         /\ UNCHANGED <<call, fwd, tokenFetches, upstreamFetches>>
    ELSE IF GetTokenSync.kind = "fetch"
    THEN Suspend(p)
    ELSE /\ MapAfterToken(p, input, GetTokenSync)
         /\ call' = [call EXCEPT ![p] = CallOf(CacheClass(cachedToken, now), NoBody)]
         /\ UNCHANGED tokenFetches

\* GET /api/maps/static with the query rq
MapGET(p, rq) ==
    /\ p \in StaticCallers
    /\ pc[p] = "idle"
    /\ rq.verb = "GET"
    /\ payload' = [payload EXCEPT ![p] = rq]
    /\ buildMapResponse(p, MapInput(rq))
    /\ UNCHANGED <<now, env, cachedToken>>

\* POST /api/maps/static: `await request.json()` settled with rq (or rejected)
MapPOST(p, rq) ==
    /\ p \in StaticCallers
    /\ pc[p] = "idle"
    /\ rq.verb = "POST"
    /\ payload' = [payload EXCEPT ![p] = rq]
    /\ buildMapResponse(p, MapInput(rq))
    /\ UNCHANGED <<now, env, cachedToken>>

\* the fetch of line 110 settles: rejected, which nothing catches, or a
\* response whose headers arrived
MapFetchSettles(p) ==
    /\ pc[p] = "mapFetch"
    /\ \/ /\ pc' = [pc EXCEPT ![p] = "done"]
          /\ out' = [out EXCEPT ![p] = Threw("TypeError")]
          /\ UNCHANGED fwd
       \/ \E resp \in
             { Upstream(200, {<<"content-type", <<"image/png">>>>}, <<"PNG">>, FALSE),
               Upstream(200, {}, <<"PNG">>, FALSE),
               Upstream(401, {<<"content-type", <<"application/json">>>>}, <<"{\"error\":1}">>, TRUE),
               Upstream(304, {}, <<>>, FALSE) } :
            /\ pc' = [pc EXCEPT ![p] = "mapBody"]
            /\ fwd' = [fwd EXCEPT ![p].resp = resp]
            /\ UNCHANGED out
    /\ UNCHANGED <<now, env, cachedToken, payload, call, tokenFetches, upstreamFetches>>

\* lines 118-135: `await upstream.text()` or `await upstream.arrayBuffer()`
\* settles: the response is built (NextResponse.json throws for a status that
\* allows no body), or the read failed, which nothing catches
MapBodySettles(p) ==
    /\ pc[p] = "mapBody"
    /\ pc' = [pc EXCEPT ![p] = "done"]
    /\ LET resp == fwd[p].resp IN
       \/ /\ fwd' = [fwd EXCEPT ![p].received = TRUE]
          /\ out' = [out EXCEPT ![p] =
                       IF resp.status \notin 200..299
                       THEN IF resp.status \in NullBodyStatuses THEN Threw("TypeError")
                            ELSE MapJson(resp.status, <<"Failed to fetch map image.">>, resp.text)
                       ELSE MapImage(IF \E h \in resp.headers : h[1] = "content-type"
                                     THEN HeaderOf(resp.headers, "content-type")
                                     ELSE <<"image/png">>)]
       \/ /\ out' = [out EXCEPT ![p] = Threw("TypeError")]
          /\ UNCHANGED fwd
    /\ UNCHANGED <<now, env, cachedToken, payload, call, tokenFetches, upstreamFetches>>

\* the finally block: clearTimeout(timeout)
StillArmed(f) == f
Disarmed(f) == [f EXCEPT !.armed = FALSE]

TimeoutMs == 20000

\* the timer of line 158 is due: its callback runs before any later completion
\* of the fetch or of the read
TimerDue(p) == fwd[p].armed /\ now - fwd[p].start >= TimeoutMs

\* the catch block of lines 207-224
RequestFailedKeepsDuration(p, message) ==
    /\ pc' = [pc EXCEPT ![p] = "done"]
    /\ out' = [out EXCEPT ![p] = RequestFailedEnvelope(fwd[p].url, fwd[p].durationMs, message)]
RequestFailed(p, message) ==
    /\ pc' = [pc EXCEPT ![p] = "done"]
    /\ out' = [out EXCEPT ![p] = RequestFailedEnvelope(fwd[p].url, now - fwd[p].start, message)]

\* the upstream fetch settles: rejected, or a response whose headers arrived
UpstreamFetchSettles(p) ==
    /\ pc[p] = "upstreamFetch"
    /\ ~TimerDue(p)
    /\ \/ /\ RequestFailed(p, <<"fetch failed">>)
          /\ fwd' = [fwd EXCEPT ![p] = Disarmed(@)]
       \/ \E resp \in UpstreamResponses :
            /\ pc' = [pc EXCEPT ![p] = "upstreamBody"]
            /\ fwd' = [fwd EXCEPT ![p].resp = resp, ![p].durationMs = now - fwd[p].start]
            /\ UNCHANGED out
    /\ UNCHANGED <<now, env, cachedToken, payload, call, tokenFetches, upstreamFetches>>

\* `await response.text()` settles: the envelope is built (NextResponse.json throws
\* into the catch block for a status that allows no body), or the read failed
UpstreamBodySettles(p) ==
    /\ pc[p] = "upstreamBody"
    /\ ~TimerDue(p)
    /\ \/ /\ fwd' = [fwd EXCEPT ![p] = [Disarmed(@) EXCEPT !.received = TRUE]]
          /\ IF fwd[p].resp.status \in NullBodyStatuses
             THEN RequestFailed(p, <<"Invalid response status code">>)
             ELSE /\ pc' = [pc EXCEPT ![p] = "done"]
                  /\ out' = [out EXCEPT ![p] =
                               PassThroughEnvelope(fwd[p].url, fwd[p].durationMs, fwd[p].resp)]
       \/ /\ RequestFailed(p, <<"terminated">>)
          /\ fwd' = [fwd EXCEPT ![p] = Disarmed(@)]
    /\ UNCHANGED <<now, env, cachedToken, payload, call, tokenFetches, upstreamFetches>>

\* the timer of line 158 fires: controller.abort() rejects the pending fetch or read
AbortTimerCoversFetchOnly(p) ==
    /\ pc[p] = "upstreamFetch"
    /\ TimerDue(p)
    /\ RequestFailed(p, <<"This operation was aborted">>)
    /\ fwd' = [fwd EXCEPT ![p] = Disarmed(@)]
    /\ UNCHANGED <<now, env, cachedToken, payload, call, tokenFetches, upstreamFetches>>
AbortTimerFires(p) ==
    /\ pc[p] \in {"upstreamFetch", "upstreamBody"}
    /\ TimerDue(p)
    /\ RequestFailed(p, <<"This operation was aborted">>)
    /\ fwd' = [fwd EXCEPT ![p] = Disarmed(@)]
    /\ UNCHANGED <<now, env, cachedToken, payload, call, tokenFetches, upstreamFetches>>

\* the client submits again, unchanged, a request the proxy answered without
\* any network call
Resubmit(p) ==
    /\ pc[p] = "done"
    /\ out[p].state = "returned"
    /\ tokenFetches[p] = 0 /\ upstreamFetches[p] = 0
    /\ pc' = [pc EXCEPT ![p] = "resubmitted"]
    /\ UNCHANGED <<now, env, cachedToken, payload, call, fwd, out, tokenFetches, upstreamFetches>>

\* the client sends its next request
NextRequest(p) ==
    /\ pc[p] = "done"
    /\ pc' = [pc EXCEPT ![p] = "idle"]
    /\ out' = [out EXCEPT ![p] = NoOut]
    /\ call' = [call EXCEPT ![p] = NoCall]
    /\ tokenFetches' = [tokenFetches EXCEPT ![p] = 0]
    /\ upstreamFetches' = [upstreamFetches EXCEPT ![p] = 0]
    /\ UNCHANGED <<now, env, cachedToken, payload, fwd>>

\* time passes while the upstream call is pending and its timer is not yet due
TimerRuns(p) ==
    /\ pc[p] \in {"upstreamFetch", "upstreamBody"}
    /\ fwd[p].armed /\ ~TimerDue(p)
    /\ now' = now + ProxyTickMs
    /\ UNCHANGED <<env, cachedToken, pc, payload, call, fwd, out, tokenFetches, upstreamFetches>>

\* time passes
Tick(step, maxTicks) ==
    /\ now + step <= maxTicks * step
    /\ now' = now + step
    /\ UNCHANGED <<env, cachedToken, pc, payload, call, fwd, out, tokenFetches, upstreamFetches>>


Init ==
    /\ now = 0
    /\ env \in TokenEnvs
    /\ cachedToken = NoToken
    /\ pc = [p \in Requests |-> "idle"]
    /\ payload = [p \in Requests |-> NoPayload]
    /\ call = [p \in Requests |-> NoCall]
    /\ fwd = [p \in Requests |-> NoFwd]
    /\ out = [p \in Requests |-> NoOut]
    /\ tokenFetches = [p \in Requests |-> 0]
    /\ upstreamFetches = [p \in Requests |-> 0]

Next ==
    \/ \E p \in TokenCallers : TokenRouteGET(p)
    \/ \E p \in TokenCallers : TokenFetchSettles(p)
    \/ \E p \in TokenCallers : TokenJsonSettles(p)
    \/ \E p \in TokenCallers : NextRequest(p)
    \/ Tick(30 * 1000, MaxTicks)

Spec == Init /\ [][Next]_vars

----------------------------------------------------------------------------
(* one request to the proxy endpoint, over every request body and environment *)

K == Str(<<"envkey">>)
C == Str(<<"envcid">>)
InsecureBase == Str(<<"http:", "//", "h">>)
\* a key that was stored with a line break in it
BrokenKey == Str(<<"env", "\n", "key">>)

ProxyEnvs ==
    { Environment(Undef, Undef, Undef, Str(<<"t">>), Str(<<"c">>), Str(<<"s">>)),
      Environment(K,     Undef, Undef, Str(<<"t">>), Str(<<"c">>), Str(<<"s">>)),
      Environment(K,     C,     Undef, Str(<<"t">>), Str(<<"c">>), Str(<<"s">>)),
      Environment(K,     Undef, InsecureBase, Undef, Undef, Undef),
      Environment(Str(<<>>), C, Undef, Str(<<"t">>), Str(<<"c">>), Str(<<"s">>)),
      Environment(BrokenKey, Undef, Undef, Str(<<"t">>), Str(<<"c">>), Str(<<"s">>)),
      Environment(Undef, C,     InsecureBase, Str(<<"t">>), Str(<<"c">>), Str(<<"s">>)) }
    \cup { Environment(Undef, C, Undef, e[1], e[2], e[3]) : e \in EntraSettings }

InitProxy ==
    /\ now = 0
    /\ env \in ProxyEnvs
    \* the cache as earlier requests may have left it: empty, or a token still good for 90 s
    /\ cachedToken \in { NoToken, Cached("tokA", 90000) }
    /\ cachedToken.present => EntraConfigured
    /\ pc = [p \in Requests |-> "idle"]
    /\ payload = [p \in Requests |-> NoPayload]
    /\ call = [p \in Requests |-> NoCall]
    /\ fwd = [p \in Requests |-> NoFwd]
    /\ out = [p \in Requests |-> NoOut]
    /\ tokenFetches = [p \in Requests |-> 0]
    /\ upstreamFetches = [p \in Requests |-> 0]

NextProxy ==
    \/ \E p \in ProxyCallers : pc[p] = "idle" /\ \E pl \in Payloads : ProxyPOST(p, pl)
    \/ \E p \in ProxyCallers : pc[p] = "resubmitted" /\ ProxyPOST(p, payload[p])
    \/ \E p \in ProxyCallers : TokenFetchSettles(p)
    \/ \E p \in ProxyCallers : TokenJsonSettles(p)
    \/ \E p \in ProxyCallers : UpstreamFetchSettles(p)
    \/ \E p \in ProxyCallers : UpstreamBodySettles(p)
    \/ \E p \in ProxyCallers : AbortTimerFires(p)
    \/ \E p \in ProxyCallers : TimerRuns(p)
    \/ \E p \in ProxyCallers : Resubmit(p)
    \/ (\E p \in ProxyCallers : pc[p] \in {"tokenFetch", "tokenJson", "upstreamFetch", "upstreamBody"}) /\ Tick(ProxyTickMs, MaxProxyTicks)

SpecProxy == InitProxy /\ [][NextProxy]_vars

----------------------------------------------------------------------------
(* one request to the proxy endpoint with a key, over every path of a bounded length *)

MaxPathLen == 5
\* every path over five characters, and paths that hold the http prefix
BoundedPaths ==
    UNION { [1..n -> {" ", "/", ".", ":", "x"}] : n \in 0..MaxPathLen }
    \cup { <<"h", "t", "t", "p">>, <<" ", "h", "t", "t", "p">>, <<"/", " ", "h", "t", "t", "p">>,
           <<"x", "h", "t", "t", "p">>, <<"H", "t", "t", "p">> }

InitPaths ==
    /\ InitProxy
    /\ env = Environment(K, Undef, Undef, Str(<<"t">>), Str(<<"c">>), Str(<<"s">>))
    /\ cachedToken = NoToken

NextPaths ==
    \/ \E p \in ProxyCallers : pc[p] = "idle" /\ \E path \in BoundedPaths :
         ProxyPOST(p, [DefaultPayload EXCEPT !.path = Str(path)])
    \/ \E p \in ProxyCallers : UpstreamFetchSettles(p)
    \/ \E p \in ProxyCallers : UpstreamBodySettles(p)

SpecPaths == InitPaths /\ [][NextPaths]_vars

----------------------------------------------------------------------------
(* one request to the static-map endpoint, over every request and environment *)

InitStatic ==
    /\ InitProxy
    /\ env \in
         { Environment(Undef, Undef, Undef, Str(<<"t">>), Str(<<"c">>), Str(<<"s">>)),
           Environment(K,     Undef, Undef, Str(<<"t">>), Str(<<"c">>), Str(<<"s">>)),
           Environment(K,     Undef, InsecureBase, Undef, Undef, Undef),
           Environment(BrokenKey, Undef, Undef, Str(<<"t">>), Str(<<"c">>), Str(<<"s">>)),
           Environment(Undef, C,     Undef, Str(<<"t">>), Str(<<"c">>), Str(<<"s">>)),
           Environment(Undef, C,     Undef, Undef, Str(<<"c">>), Str(<<"s">>)) }

NextStatic ==
    \/ \E p \in StaticCallers : \E rq \in MapQueries : MapGET(p, rq)
    \/ \E p \in StaticCallers : \E rq \in MapBodies : MapPOST(p, rq)
    \/ \E p \in StaticCallers : TokenFetchSettles(p)
    \/ \E p \in StaticCallers : TokenJsonSettles(p)
    \/ \E p \in StaticCallers : MapFetchSettles(p)
    \/ \E p \in StaticCallers : MapBodySettles(p)

SpecStatic == InitStatic /\ [][NextStatic]_vars

\* the same, with the clock running while a timer is pending and a due timer firing
SpecProxyFair ==
    /\ SpecProxy
    /\ \A p \in ProxyCallers : WF_vars(TimerRuns(p)) /\ WF_vars(AbortTimerFires(p))

----------------------------------------------------------------------------
(* The claims *)

\* p's getMapsAccessToken call begins in this step
CallBegins(p) == ~call[p].active /\ call'[p].active

\* C1: whenever the cache holds a token whose expiresAt is more than 60 s after
\* the current time, a getMapsAccessToken call returns exactly the cached
\* accessToken, issues no token-exchange call and leaves the cache unchanged,
\* whatever calls came before and whatever other calls are in flight.
C1_ValidCacheServedWithoutExchange ==
    [][\A p \in TokenCallers :
         (CallBegins(p) /\ cachedToken.present /\ cachedToken.expiresAt > now + 60000)
         => /\ out'[p] = TokenResponse(200, cachedToken.accessToken, <<>>)
            /\ tokenFetches' = tokenFetches
            /\ cachedToken' = cachedToken]_vars

\* a call was served from the cache while another caller's exchange was in flight
C1_Witness ==
    \E p, q \in TokenCallers :
        /\ p # q
        /\ pc[p] = "done" /\ call[p].found = "valid"
        /\ out[p].token = cachedToken.accessToken /\ tokenFetches[p] = 0
        /\ pc[q] \in {"tokenFetch", "tokenJson"}

\* C2: on an empty cache, or one whose expiresAt is at most 60 s after the
\* current time, with tenant ID, client ID and client secret set, a call issues
\* one token-exchange call and never a second one; when the identity provider
\* answers with success the call returns the access_token of that answer and
\* overwrites the cache with it and expiresAt = completion time + expires_in s.
C2_StaleCacheOneExchange ==
    [][\A p \in TokenCallers :
         /\ (CallBegins(p) /\ EntraConfigured
               /\ (~cachedToken.present \/ cachedToken.expiresAt <= now + 60000))
            => (pc'[p] = "tokenFetch" /\ tokenFetches'[p] = 1)
         /\ (pc[p] = "tokenJson" /\ pc'[p] # "tokenJson" /\ call[p].body.valid)
            => /\ out'[p] = TokenResponse(200, call[p].body.access_token, <<>>)
               /\ cachedToken' = Cached(call[p].body.access_token,
                                        now + call[p].body.expires_in * 1000)
               /\ tokenFetches'[p] = 1
         /\ tokenFetches'[p] <= 1]_vars

\* a call that found the cache exactly 60 s before expiry has refreshed it
C2_Witness ==
    \E p \in TokenCallers :
        /\ pc[p] = "done" /\ call[p].found = "boundary"
        /\ out[p].httpStatus = 200 /\ tokenFetches[p] = 1
        /\ cachedToken.accessToken = out[p].token
        /\ cachedToken.expiresAt > now + 60000

\* the envelope the proxy returned for p, if it returned one
Returned(p) == pc[p] \in {"done", "resubmitted"} /\ out[p].state = "returned"
ErrorCodeIs(p, code) == Returned(p) /\ out[p].errorCode = code

\* C3: if an API key is present in the request's auth.apiKey or in
\* AZURE_MAPS_KEY, whatever the other one holds and whether or not a client ID
\* is present, the credential step never calls getMapsAccessToken and the
\* forwarded request carries the subscription key.
C3_KeyNeverExchanges ==
    \A p \in ProxyCallers :
        (pc[p] # "idle" /\ (Truthy(payload[p].auth.apiKey) \/ Truthy(env.AZURE_MAPS_KEY)))
        => /\ ~call[p].active
           /\ tokenFetches[p] = 0
           /\ fwd[p].issued => \E h \in fwd[p].headers : h[1] = "subscription-key"

\* the path string of a request, when the body is an object (or a number) whose
\* path is a string or absent
HasPathString(pl) == pl.json \in {"object", "number"} /\ Or(pl.path, Str(<<>>)).t = "string"
PathString(pl) == Or(pl.path, Str(<<>>)).s

\* the paths C4 is about
PathIsUnsafe(raw) ==
    \/ normalizePath(raw) = <<>>
    \/ Includes(raw, <<".", ".">>)
    \/ Includes(raw, <<":", "/", "/">>)
    \/ StartsWith(normalizePath(raw), <<"h", "t", "t", "p">>)

NothingSent(p) ==
    /\ tokenFetches[p] = 0 /\ upstreamFetches[p] = 0
    /\ ~call[p].active /\ ~fwd[p].issued

\* C4: a request whose path is empty after normalization, or contains "..", or
\* contains "://" or begins with "http", is answered with errorCode invalid_path
\* and status 400, and neither a token exchange nor an upstream call is issued.
C4_UnsafePathRejected ==
    \A p \in ProxyCallers :
        (pc[p] # "idle" /\ HasPathString(payload[p]) /\ PathIsUnsafe(PathString(payload[p])))
        => /\ ErrorCodeIs(p, "invalid_path")
           /\ out[p].httpStatus = 400 /\ out[p].metaStatus = 400
           /\ NothingSent(p)

\* a traversal path was rejected, and so was a path that only the second
\* normalization of isPathSafe reduces to "http"
C4_Witness ==
    \E p \in ProxyCallers :
        /\ payload[p].path \in {Str(<<".", ".", "/", "a">>), Str(<<"/", " ", "h", "t", "t", "p">>)}
        /\ ErrorCodeIs(p, "invalid_path")

FiveMethods == {GET, POST, PUT, PATCH, DELETE}
\* the path of the request passes the path check of the proxy
PathIsSafe(pl) == HasPathString(pl) /\ isPathSafe(normalizePath(PathString(pl)))

\* C5 as stated: a request with a safe path whose method (a non-empty string)
\* is not exactly one of GET, POST, PUT, PATCH, DELETE is answered with
\* errorCode invalid_method, status 400, and nothing is forwarded.
C5_Original ==
    \A p \in ProxyCallers :
        (pc[p] # "idle" /\ PathIsSafe(payload[p])
           /\ payload[p].method.t = "string" /\ payload[p].method.s # <<>>
           /\ payload[p].method.s \notin FiveMethods)
        => /\ ErrorCodeIs(p, "invalid_method")
           /\ out[p].httpStatus = 400
           /\ upstreamFetches[p] = 0

\* the method of a request is a string, or absent (or empty) and then GET
HasMethodString(pl) == Or(pl.method, Str(GET)).t = "string"
MethodString(pl) == Or(pl.method, Str(GET)).s

\* C5 amended: a request with a safe path whose method, GET when it is absent or
\* empty, is a string that after upper-casing is not one of GET, POST, PUT,
\* PATCH, DELETE is answered with errorCode invalid_method, status 400, and
\* nothing is sent.
C5_MethodRejectedAfterUpperCasing ==
    \A p \in ProxyCallers :
        (pc[p] # "idle" /\ PathIsSafe(payload[p]) /\ HasMethodString(payload[p])
           /\ ToUpperCase(MethodString(payload[p])) \notin FiveMethods)
        => /\ ErrorCodeIs(p, "invalid_method")
           /\ out[p].httpStatus = 400 /\ out[p].metaStatus = 400
           /\ NothingSent(p)

C5_Witness ==
    \E p \in ProxyCallers :
        /\ PathIsSafe(payload[p]) /\ payload[p].method = Str(HEAD)
        /\ ErrorCodeIs(p, "invalid_method")

MethodIsAllowed(pl) ==
    HasMethodString(pl) /\ ToUpperCase(MethodString(pl)) \in FiveMethods

\* the effective base URL is unparsable, not https, or has a query or a fragment
BaseUrlIsBad(pl) ==
    LET parsed == URLParse(StringOf(EffectiveBaseUrl(pl))) IN
    \/ ~parsed.ok
    \/ parsed.protocol # "https:"
    \/ parsed.search # <<>>
    \/ parsed.hash # <<>>

\* C6: a request with a safe path and an allowed method whose effective base
\* URL (the request's baseUrl, else the process default) is unparsable, not
\* https, or carries a query string or a fragment is answered with errorCode
\* invalid_base_url, status 400, and no network call is issued.
C6_BadBaseUrlRejected ==
    \A p \in ProxyCallers :
        (pc[p] # "idle" /\ PathIsSafe(payload[p]) /\ MethodIsAllowed(payload[p])
           /\ BaseUrlIsBad(payload[p]))
        => /\ ErrorCodeIs(p, "invalid_base_url")
           /\ out[p].httpStatus = 400 /\ out[p].metaStatus = 400
           /\ NothingSent(p)

\* a base URL with a query string was rejected
C6_Witness ==
    \E p \in ProxyCallers :
        /\ payload[p].baseUrl = Str(<<"https:", "//", "h", "?", "x=1">>)
        /\ ErrorCodeIs(p, "invalid_base_url")

ValidationCodes == {"invalid_json", "invalid_path", "invalid_method", "invalid_base_url"}
CredentialCodes == {"missing_maps_client_id", "missing_credentials", "token_error"}

\* C7: the steps run in the order validate, resolve credential, forward: a
\* request rejected by validation has issued no network call, a request
\* rejected by the credential step no upstream call; a token exchange is only
\* begun, and an upstream call only issued, for a request validation accepted,
\* and the upstream call carries the credential.
C7_ValidateResolveForward ==
    \A p \in ProxyCallers :
        /\ (Returned(p) /\ out[p].errorCode \in ValidationCodes) => NothingSent(p)
        /\ (Returned(p) /\ out[p].errorCode \in CredentialCodes)
           => (upstreamFetches[p] = 0 /\ ~fwd[p].issued)
        /\ (call[p].active \/ fwd[p].issued) => Validate(payload[p]).kind = "ok"
        /\ fwd[p].issued
           => \E h \in fwd[p].headers : h[1] \in {"subscription-key", "Authorization"}

\* a request was rejected with token_error after its exchange and before any
\* upstream call
C7_Witness ==
    \E p \in ProxyCallers :
        /\ ErrorCodeIs(p, "token_error")
        /\ tokenFetches[p] = 1 /\ upstreamFetches[p] = 0

\* the envelope of p hands the upstream response through
PassedThrough(p) ==
    /\ fwd[p].issued /\ fwd[p].resp # NoResponse
    /\ out[p].httpStatus = fwd[p].resp.status
    /\ out[p].raw = fwd[p].resp.text
    /\ out[p].body = ParsedBody(fwd[p].resp)

\* C8: in every envelope the proxy returns, errorCode is present if and only
\* if no upstream response was received and returned: present on every local
\* rejection, transport failure and timeout, absent on every upstream response
\* handed through, whatever its status.
C8_ErrorCodeIffNotPassedThrough ==
    \A p \in ProxyCallers :
        Returned(p) => ((out[p].errorCode # NoErrorCode) <=> ~PassedThrough(p))

\* an upstream 500 was handed through without errorCode
C8_Witness ==
    \E p \in ProxyCallers :
        /\ Returned(p) /\ PassedThrough(p)
        /\ out[p].httpStatus = 500 /\ out[p].errorCode = NoErrorCode

\* C9: the HTTP status of every response equals meta.status of its envelope,
\* and errorCode fixes it: 400 for the four validation codes, 500 for the three
\* credential codes, 502 for request_failed, the upstream status without
\* errorCode.
C9_StatusFollowsErrorCode ==
    \A p \in ProxyCallers :
        Returned(p)
        => /\ out[p].httpStatus = out[p].metaStatus
           /\ out[p].errorCode \in ValidationCodes => out[p].httpStatus = 400
           /\ out[p].errorCode \in CredentialCodes => out[p].httpStatus = 500
           /\ out[p].errorCode = "request_failed" => out[p].httpStatus = 502
           /\ out[p].errorCode = NoErrorCode => out[p].httpStatus = fwd[p].resp.status
           /\ out[p].errorCode \in ValidationCodes \cup CredentialCodes
                                   \cup {"request_failed", NoErrorCode}

\* an aborted upstream call was answered with 502
C9_Witness ==
    \E p \in ProxyCallers :
        /\ ErrorCodeIs(p, "request_failed")
        /\ out[p].httpStatus = 502 /\ out[p].durationMs >= TimeoutMs

\* C10: for every request body the proxy returns an envelope and never ends
\* with an uncaught exception, also for JSON that is no RequestDescriptor.
C10_AlwaysAnEnvelope ==
    \A p \in ProxyCallers : pc[p] = "done" => out[p].state = "returned"

\* the prerequisites of an exchange that are unset (or empty) in the environment e
EntraNames == {"AZURE_TENANT_ID", "AZURE_CLIENT_ID", "AZURE_CLIENT_SECRET"}
Unset(e) == { n \in EntraNames : ~Truthy(e[n]) }

\* C11: when an exchange is needed, a missing tenant ID, a missing client ID
\* and a missing client secret each make getMapsAccessToken fail before any
\* network call with an error of the form missing_<name>, and the error tells
\* the three causes apart: an environment with another prerequisite missing
\* gives another error.
C11_MissingCausesDistinguishable ==
    \A p \in TokenCallers :
        (pc[p] = "done" /\ call[p].active /\ call[p].found # "valid" /\ Unset(env) # {})
        => /\ tokenFetches[p] = 0
           /\ out[p].httpStatus = 500
           /\ StartsWith(out[p].message, <<"missing_">>)
           /\ \A e \in TokenEnvs :
                (Unset(e) # {} /\ Unset(e) # Unset(env))
                => CheckPrerequisites(e).message # out[p].message

\* the codes of the rejections that precede every network call
PreNetworkCodes == ValidationCodes \cup {"missing_maps_client_id", "missing_credentials"}
RejectedBeforeNetwork(p) ==
    /\ Returned(p) /\ out[p].errorCode \in PreNetworkCodes
    /\ tokenFetches[p] = 0 /\ upstreamFetches[p] = 0

\* C12 as stated: every envelope of a rejection that precedes every network call
\* has meta.durationMs = 0 and meta.url = "".
C12_Original ==
    \A p \in ProxyCallers :
        RejectedBeforeNetwork(p) => (out[p].durationMs = 0 /\ out[p].url = <<>>)

\* C12 amended: every envelope of a rejection that precedes every network call
\* has meta.durationMs = 0; meta.url is "" for the four validation codes and the
\* target URL of the request for missing_maps_client_id and missing_credentials.
C12_PreNetworkRejectionsTakeNoTime ==
    \A p \in ProxyCallers :
        RejectedBeforeNetwork(p)
        => /\ out[p].durationMs = 0
           /\ out[p].errorCode \in ValidationCodes => out[p].url = <<>>
           /\ out[p].errorCode \notin ValidationCodes
              => (out[p].url = Validate(payload[p]).url /\ out[p].url # <<>>)

\* a request was rejected for a missing prerequisite of the exchange, with its
\* target URL in the envelope
C12_Witness ==
    \E p \in ProxyCallers :
        /\ ErrorCodeIs(p, "missing_credentials") /\ tokenFetches[p] = 0
        /\ out[p].durationMs = 0 /\ out[p].url # <<>>

\* the upstream call of p is pending (the fetch, or the read of the body)
UpstreamPending(p) == pc[p] \in {"upstreamFetch", "upstreamBody"}

\* C13: while the upstream call is pending its timer stays armed, and once
\* 20 s have passed since the call was issued the next step of the request is
\* the abort: status 502, errorCode request_failed, no headers, durationMs at
\* least the 20000 ms of the timeout, also when the body was being read.
C13_TimeoutAborts ==
    [][\A p \in ProxyCallers :
         /\ UpstreamPending(p) => fwd[p].armed
         /\ (UpstreamPending(p) /\ now - fwd[p].start >= TimeoutMs /\ pc'[p] # pc[p])
            => /\ pc'[p] = "done"
               /\ out'[p].state = "returned"
               /\ out'[p].httpStatus = 502 /\ out'[p].metaStatus = 502
               /\ out'[p].errorCode = "request_failed"
               /\ out'[p].headers = {}
               /\ out'[p].durationMs >= TimeoutMs
               /\ ~fwd'[p].armed]_vars

\* the call was aborted while the body of an answer was being read
C13_Witness ==
    \E p \in ProxyCallers :
        /\ ErrorCodeIs(p, "request_failed")
        /\ fwd[p].resp # NoResponse /\ ~fwd[p].received
        /\ out[p].durationMs >= TimeoutMs
        /\ out[p].body = Message(<<"This operation was aborted">>)

\* C14: once the upstream call has been issued the request eventually returns
\* an envelope, a pass-through or request_failed, provided only that the timer
\* fires; and an envelope once returned is never replaced by another.
C14_ForwardedRequestReturns ==
    /\ \A p \in ProxyCallers :
         fwd[p].issued
         ~> (Returned(p) /\ out[p].errorCode \in {NoErrorCode, "request_failed"})
    /\ [][\A p \in ProxyCallers : out[p].state = "returned" => out'[p] = out[p]]_vars

\* the upstream never answered and the request returned request_failed
C14_Witness ==
    \E p \in ProxyCallers :
        /\ ErrorCodeIs(p, "request_failed")
        /\ fwd[p].issued /\ fwd[p].resp = NoResponse
        /\ out[p].body = Message(<<"This operation was aborted">>)

\* the secrets of the run of p: the API key of the request and of the process,
\* the client secret, the bearer tokens
Secrets(p) ==
    { x \in { StringOf(payload[p].auth.apiKey), StringOf(env.AZURE_MAPS_KEY),
              StringOf(env.AZURE_CLIENT_SECRET) } :
        x \notin { <<>>, <<"undefined">> } }
    \cup { <<tok>> : tok \in {cachedToken.accessToken, call[p].body.access_token} \ {""} }

\* C15: no error envelope of the proxy depends on the value of a secret: the
\* API key, the bearer token and the client secret of the run occur nowhere in
\* it, so that a run with other values of them gets the same envelope.
C15_ErrorsIndependentOfSecrets ==
    \A p \in ProxyCallers :
        (Returned(p) /\ out[p].errorCode # NoErrorCode)
        => \A secret \in Secrets(p) :
             /\ ~Includes(out[p].body.text, secret)
             /\ ~Includes(out[p].url, secret)
             /\ ~Includes(out[p].raw, secret)
             /\ out[p].headers = {}

HeaderNames(headers) == { h[1] : h \in headers }

\* C16: every forwarded request carries exactly one credential form: the
\* header subscription-key without Authorization and x-ms-client-id, or
\* Authorization "Bearer <token>" with x-ms-client-id and without
\* subscription-key; never neither, never both.
C16_ExactlyOneCredentialForm ==
    \A p \in ProxyCallers :
        fwd[p].issued
        => LET names == HeaderNames(fwd[p].headers) IN
           \/ /\ "subscription-key" \in names
              /\ "Authorization" \notin names /\ "x-ms-client-id" \notin names
           \/ /\ "subscription-key" \notin names
              /\ "Authorization" \in names /\ "x-ms-client-id" \in names
              /\ StartsWith(HeaderOf(fwd[p].headers, "Authorization"), <<"Bearer ">>)

\* a request was forwarded with a bearer token although the process holds a key
C16_Witness ==
    \E p \in ProxyCallers :
        /\ fwd[p].issued /\ "Authorization" \in HeaderNames(fwd[p].headers)
        /\ Truthy(env.AZURE_MAPS_KEY)

\* neither an API key nor a client ID is set, in the request or in the process
NeitherAvailable(pl) ==
    /\ ~Truthy(pl.auth.apiKey) /\ ~Truthy(env.AZURE_MAPS_KEY)
    /\ ~Truthy(pl.auth.clientId) /\ ~Truthy(env.AZURE_MAPS_CLIENT_ID)

\* C17: a valid request with neither an API key nor a client ID available is
\* answered with errorCode missing_maps_client_id and status 500 without a
\* token exchange and without an upstream call; submitted again it gets the
\* same envelope, and nothing else changes.
C17_MissingClientIdIsFinal ==
    /\ [](\A p \in ProxyCallers :
            (pc[p] # "idle" /\ Validate(payload[p]).kind = "ok" /\ NeitherAvailable(payload[p]))
            => /\ ErrorCodeIs(p, "missing_maps_client_id")
               /\ out[p].httpStatus = 500 /\ out[p].metaStatus = 500
               /\ NothingSent(p))
    /\ [][\A p \in ProxyCallers :
            (pc[p] = "resubmitted" /\ ErrorCodeIs(p, "missing_maps_client_id") /\ pc'[p] # pc[p])
            => /\ pc'[p] = "done" /\ out'[p] = out[p]
               /\ UNCHANGED <<now, env, cachedToken, payload, call, fwd,
                              tokenFetches, upstreamFetches>>]_vars

\* a request rejected for the missing client ID has been submitted again
C17_Witness ==
    \E p \in ProxyCallers :
        /\ pc[p] = "resubmitted" /\ ErrorCodeIs(p, "missing_maps_client_id")
        /\ NeitherAvailable(payload[p])

\* the step returns for p an envelope with errorCode code and status 500
Answers500(p, code) ==
    /\ out'[p].state = "returned" /\ out'[p].errorCode = code
    /\ out'[p].httpStatus = 500 /\ out'[p].metaStatus = 500

\* C18: every failure of getMapsAccessToken during a proxy request gives
\* status 500, with errorCode missing_credentials when a prerequisite (tenant
\* ID, client ID, client secret) is missing and token_error for every other
\* failure (non-success answer, transport failure, answer that is no JSON);
\* and these two codes are returned for no other reason.
C18_TokenFailureCodes ==
    [][\A p \in ProxyCallers :
         /\ (CallBegins(p) /\ GetTokenSync.kind = "throw")
            => (~EntraConfigured /\ Answers500(p, "missing_credentials"))
         /\ (pc[p] = "tokenFetch" /\ pc'[p] = "done") => Answers500(p, "token_error")
         /\ (pc[p] = "tokenJson" /\ ~call[p].body.valid /\ pc'[p] # pc[p])
            => Answers500(p, "token_error")
         /\ (out'[p] # out[p] /\ out'[p].state = "returned"
               /\ out'[p].errorCode = "missing_credentials")
            => (CallBegins(p) /\ ~EntraConfigured)
         /\ (out'[p] # out[p] /\ out'[p].state = "returned"
               /\ out'[p].errorCode = "token_error")
            => (pc[p] \in {"tokenFetch", "tokenJson"} /\ EntraConfigured)]_vars

\* the identity provider refused with a text that mentions missing_, and the
\* request was answered with token_error
C18_Witness ==
    \E p \in ProxyCallers :
        /\ ErrorCodeIs(p, "token_error") /\ out[p].httpStatus = 500
        /\ Includes(out[p].body.text, <<"missing_">>)

\* C19: for every upstream response received in full the envelope has raw equal
\* to the response text, meta.status equal to the upstream status and no
\* errorCode; body is the parsed JSON when the content type contains
\* application/json and the text parses, the raw text otherwise.
C19_ReceivedInFullPassedThrough ==
    \A p \in ProxyCallers :
        (Returned(p) /\ fwd[p].received)
        => /\ out[p].raw = fwd[p].resp.text
           /\ out[p].metaStatus = fwd[p].resp.status
           /\ out[p].errorCode = NoErrorCode
           /\ out[p].body.text = fwd[p].resp.text
           /\ out[p].body.kind = "json"
              <=> (Includes(HeaderOf(fwd[p].resp.headers, "content-type"), <<"application/json">>)
                     /\ fwd[p].resp.parses)

\* C20: in every envelope the names of meta.headers are among content-type,
\* x-ms-request-id, x-ms-correlation-request-id, x-ms-azuremaps-tracking-id and
\* each value is that of the upstream header of the name; on every local
\* rejection and transport failure meta.headers is empty.
C20_HeadersAllowListed ==
    \A p \in ProxyCallers :
        Returned(p)
        => /\ HeaderNames(out[p].headers)
                \subseteq {"content-type", "x-ms-request-id", "x-ms-correlation-request-id",
                           "x-ms-azuremaps-tracking-id"}
           /\ \A h \in out[p].headers : h[2] = HeaderOf(fwd[p].resp.headers, h[1])
           /\ out[p].errorCode # NoErrorCode => out[p].headers = {}

\* an answer with a server header was handed through with its request id only
C20_Witness ==
    \E p \in ProxyCallers :
        /\ Returned(p)
        /\ <<"x-ms-request-id", <<"r1">>>> \in out[p].headers
        /\ "server" \in HeaderNames(fwd[p].resp.headers)
        /\ "server" \notin HeaderNames(out[p].headers)

\* p's exchange is in flight
Exchanging(p) == pc[p] \in {"tokenFetch", "tokenJson"}
\* the cache is empty or no longer valid
CacheStale == ~cachedToken.present \/ cachedToken.expiresAt <= now + 60000

\* C21: concurrent calls on a stale or empty cache each perform their own
\* exchange, also while another exchange is in flight; each returns the token of
\* its own exchange and overwrites the cache with the token and the expiry of
\* that exchange, so that the exchange completed last is the one the cache
\* holds; the cache changes in no other step, and always to the token and the
\* expiry of one exchange.
C21_ConcurrentExchangesLastWriteWins ==
    [][\A p \in TokenCallers :
         /\ (CallBegins(p) /\ EntraConfigured /\ CacheStale)
            => (pc'[p] = "tokenFetch" /\ tokenFetches'[p] = tokenFetches[p] + 1)
         /\ (pc[p] = "tokenJson" /\ call[p].body.valid /\ pc'[p] # pc[p])
            => /\ out'[p] = TokenResponse(200, call[p].body.access_token, <<>>)
               /\ cachedToken' = Cached(call[p].body.access_token,
                                        now + call[p].body.expires_in * 1000)
         /\ cachedToken' # cachedToken
            => \E q \in TokenCallers :
                 /\ pc[q] = "tokenJson" /\ pc'[q] = "done" /\ call[q].body.valid
                 /\ cachedToken' = Cached(call[q].body.access_token,
                                          now + call[q].body.expires_in * 1000)]_vars

\* two calls ran their exchanges side by side and got different tokens; the
\* cache holds the token of one of them, the other has returned its own
C21_Witness ==
    \E p, q \in TokenCallers :
        /\ p # q
        /\ pc[p] = "done" /\ pc[q] = "done"
        /\ call[p].found \in {"empty", "stale", "boundary"}
        /\ call[q].found \in {"empty", "stale", "boundary"}
        /\ tokenFetches[p] = 1 /\ tokenFetches[q] = 1
        /\ out[p].httpStatus = 200 /\ out[q].httpStatus = 200
        /\ out[p].token # out[q].token
        /\ cachedToken.accessToken = out[q].token

\* C27: a call that fails (missing prerequisite, non-success answer, transport
\* failure, answer that is no JSON) leaves the cache as it was; the cache is
\* written only by a successful exchange, a stale entry is not cleared, and a
\* later call on the still stale cache issues a new exchange.
C27_FailureLeavesCache ==
    [][\A p \in TokenCallers :
         /\ (pc[p] # "done" /\ pc'[p] = "done" /\ out'[p].httpStatus = 500)
            => cachedToken' = cachedToken
         /\ cachedToken' # cachedToken
            => \E q \in TokenCallers :
                 /\ pc[q] = "tokenJson" /\ pc'[q] = "done" /\ call[q].body.valid
                 /\ out'[q].httpStatus = 200
         /\ (CallBegins(p) /\ EntraConfigured /\ cachedToken.present
               /\ cachedToken.expiresAt <= now + 60000)
            => (pc'[p] = "tokenFetch" /\ tokenFetches'[p] = 1)]_vars

\* a call found a stale token, its exchange failed, and the stale token is
\* still in the cache
C27_Witness ==
    \E p \in TokenCallers :
        /\ pc[p] = "done" /\ call[p].found = "stale"
        /\ tokenFetches[p] = 1 /\ out[p].httpStatus = 500
        /\ cachedToken.present /\ cachedToken.expiresAt <= now + 60000

\* C24: the body is sent only with methods that carry one: a forwarded GET or
\* DELETE has no body and no content-type header even when the request has a
\* body, and a forwarded request has the header content-type: application/json
\* if and only if a body is sent.
C24_BodyOnlyForBodyMethods ==
    \A p \in ProxyCallers :
        fwd[p].issued
        => /\ fwd[p].method \in {GET, DELETE}
              => (~fwd[p].hasBody /\ "content-type" \notin { h[1] : h \in fwd[p].headers })
           /\ fwd[p].hasBody
              <=> <<"content-type", <<"application/json">>>> \in fwd[p].headers

\* the URL parts of the request of p
BaseOf(p) == NormalizedBase(URLParse(StringOf(EffectiveBaseUrl(payload[p]))))
QueryOf(p) == buildQueryString(payload[p].params.entries)

\* C25: for every accepted request the forwarded URL and meta.url are
\* normalizedBase + "/" + path + ("?" + query when the query is non-empty), and
\* normalizedBase, origin + pathname of the effective base URL without its
\* trailing slash, does not end with "/".
C25_UrlIsBaseSlashPath ==
    \A p \in ProxyCallers :
        (pc[p] # "idle" /\ Validate(payload[p]).kind = "ok")
        => /\ fwd[p].issued
              => fwd[p].url = BaseOf(p) \o <<"/">> \o normalizePath(PathString(payload[p]))
                                \o (IF QueryOf(p) # <<>> THEN <<"?">> \o QueryOf(p) ELSE <<>>)
           /\ (Returned(p) /\ fwd[p].issued) => out[p].url = fwd[p].url
           /\ BaseOf(p)[Len(BaseOf(p))] # "/"

\* C26: for every input normalizePath returns a string with no leading "/" and
\* no leading or trailing whitespace; it is idempotent; and the string
\* isPathSafe examines is the string placed in the forwarded URL.
C26_NormalizePathIsNormal ==
    \A p \in ProxyCallers :
        (pc[p] # "idle" /\ HasPathString(payload[p]))
        => LET path == normalizePath(PathString(payload[p])) IN
           /\ path # <<>> => (path[1] # "/" /\ ~IsWhitespace(path[1])
                               /\ ~IsWhitespace(path[Len(path)]))
           /\ normalizePath(path) = path

\* the request has the shape the handler reads without an exception
WellTyped(pl) ==
    \/ pl.json = "invalid"
    \/ HasPathString(pl) /\ (PathIsSafe(pl) => HasMethodString(pl))

\* the first rule, in the order of the claim, that the request violates
FirstViolation(pl) ==
    IF pl.json = "invalid" THEN "invalid_json"
    ELSE IF ~PathIsSafe(pl) THEN "invalid_path"
    ELSE IF ~MethodIsAllowed(pl) THEN "invalid_method"
    ELSE IF BaseUrlIsBad(pl) THEN "invalid_base_url"
    ELSE IF ~Truthy(mapsKey(pl)) /\ ~Truthy(mapsClientId(pl)) THEN "missing_maps_client_id"
    ELSE "none"

\* C28: a request that violates several rules is answered with one errorCode,
\* that of the first rule violated in the order invalid_json, invalid_path,
\* invalid_method, invalid_base_url, missing_maps_client_id, and with
\* missing_credentials or token_error only when none of these is violated.
C28_FixedPrecedence ==
    \A p \in ProxyCallers :
        (pc[p] # "idle" /\ WellTyped(payload[p]))
        => /\ FirstViolation(payload[p]) # "none"
              => ErrorCodeIs(p, FirstViolation(payload[p]))
           /\ (Returned(p) /\ out[p].errorCode \in {"missing_credentials", "token_error"})
              => FirstViolation(payload[p]) = "none"

\* an unsafe path with an unsupported method and a base URL that is not https
\* was answered with invalid_path
C28_Witness ==
    \E p \in ProxyCallers :
        /\ payload[p].path = Str(<<".", ".", "/", "a">>)
        /\ payload[p].method = Str(HEAD)
        /\ payload[p].baseUrl = Str(<<"http:", "//", "h">>)
        /\ ErrorCodeIs(p, "invalid_path")

\* C29: the abort timer is armed only while the upstream call of a request
\* that passed validation and credential resolution is pending; on every exit
\* of the forward step it is cancelled, so that no timer is armed once the
\* envelope is returned; and a returned envelope is never changed.
C29_TimerArmedOnlyWhilePending ==
    /\ [](\A p \in ProxyCallers :
            /\ fwd[p].armed
               => /\ UpstreamPending(p) /\ fwd[p].issued
                  /\ Validate(payload[p]).kind = "ok"
                  /\ \E h \in fwd[p].headers : h[1] \in {"subscription-key", "Authorization"}
            /\ pc[p] \in {"idle", "tokenFetch", "tokenJson", "done", "resubmitted"}
               => ~fwd[p].armed)
    /\ [][\A p \in ProxyCallers :
            /\ Returned(p) => out'[p] = out[p]
            /\ (fwd[p].armed /\ pc'[p] = "done") => ~fwd'[p].armed]_vars

\* a request returned the upstream answer and its timer is cancelled
C29_Witness ==
    \E p \in ProxyCallers :
        /\ Returned(p) /\ fwd[p].issued /\ fwd[p].received
        /\ out[p].errorCode = NoErrorCode /\ ~fwd[p].armed

\* the path placed in the forwarded URL of p
ForwardedPath(p) ==
    SubSeq(fwd[p].url, Len(BaseOf(p)) + 2,
           Len(fwd[p].url) - (IF QueryOf(p) = <<>> THEN 0 ELSE Len(QueryOf(p)) + 1))

\* C30: the path placed in the forwarded URL of an accepted request is
\* non-empty, contains no ".." and no "://" and does not begin with "http",
\* and the forwarded URL begins with the normalized base URL and "/".
C30_ForwardedPathIsSafe ==
    \A p \in ProxyCallers :
        fwd[p].issued
        => /\ ForwardedPath(p) # <<>>
           /\ ~Includes(ForwardedPath(p), <<".", ".">>)
           /\ ~Includes(ForwardedPath(p), <<":", "/", "/">>)
           /\ ~StartsWith(ForwardedPath(p), <<"h", "t", "t", "p">>)
           /\ SubSeq(fwd[p].url, 1, Len(BaseOf(p)) + 1) = BaseOf(p) \o <<"/">>
           /\ SubSeq(fwd[p].url, 1, 3) = URLParse(StringOf(EffectiveBaseUrl(payload[p]))).origin

\* a path whose two normalizations differ was forwarded
C30_Witness ==
    \E p \in ProxyCallers :
        /\ fwd[p].issued
        /\ normalizePath(ForwardedPath(p)) # ForwardedPath(p)
        /\ Includes(ForwardedPath(p), <<":", "/">>)

\* the value requested for a parameter: the number given, or the default
Requested(p, name, default) ==
    LET rq == payload[p] IN
    IF rq.verb = "GET" THEN Coalesce(toNumber(rq[name]), default)
    ELSE IF rq.json = "object" /\ rq[name].t = "number" THEN rq[name] ELSE default

\* x rounded to the nearest integer and brought into lo..hi
RoundedInto(x, lo, hi) ==
    IF x.kind = "inf" THEN hi
    ELSE IF x.kind = "-inf" THEN lo
    ELSE LET r == IF x.halves % 2 = 0 THEN x.halves \div 2 ELSE (x.halves + 1) \div 2 IN
         IF r < lo THEN lo ELSE IF r > hi THEN hi ELSE r

\* x is an integer of lo..hi
IsWholeIn(x, lo, hi) ==
    x.kind = "finite" /\ x.halves % 2 = 0 /\ x.halves \div 2 >= lo /\ x.halves \div 2 <= hi

\* C22: the URL of every upstream map request carries zoom in 1..20, width in
\* 240..1280 and height in 160..960, each the requested value (the default 14,
\* 640 or 320 when absent or not a number) rounded and clamped to its range.
C22_MapParametersClamped ==
    \A p \in StaticCallers :
        fwd[p].issued
        => /\ IsWholeIn(fwd[p].url.zoom, 1, 20)
           /\ IsWholeIn(fwd[p].url.width, 240, 1280)
           /\ IsWholeIn(fwd[p].url.height, 160, 960)
           /\ fwd[p].url.zoom = Whole(RoundedInto(Requested(p, "zoom", Whole(14)), 1, 20))
           /\ fwd[p].url.width = Whole(RoundedInto(Requested(p, "width", Whole(640)), 240, 1280))
           /\ fwd[p].url.height = Whole(RoundedInto(Requested(p, "height", Whole(320)), 160, 960))

\* a map was requested with a zoom above its range and a width and a height
\* below theirs
C22_Witness ==
    \E p \in StaticCallers :
        /\ fwd[p].issued
        /\ payload[p].zoom = Str(<<"99999">>) /\ fwd[p].url.zoom = Whole(20)
        /\ payload[p].width = Str(<<"0">>) /\ fwd[p].url.width = Whole(240)
        /\ payload[p].height = Str(<<"0">>) /\ fwd[p].url.height = Whole(160)

\* C23: every static-map request that ends, ends with the image and its content
\* type (status 200) or with a JSON error response, also when the upstream
\* fetch fails at transport level.
C23_ImageOrJsonError ==
    \A p \in StaticCallers :
        pc[p] = "done"
        => /\ out[p].state = "returned"
           /\ \/ out[p].kind = "image" /\ out[p].httpStatus = 200
              \/ out[p].kind = "json" /\ out[p].httpStatus >= 400

====
